---- MODULE Spec2Model ----
(***************************************************************************)
(* Streaming speech recognition of nivu/interviewer: the windowed audio   *)
(* accumulator (STTManager.process_audio_chunk) and the transcript         *)
(* stitcher (STTManager.merge_transcript) of src/api/audio.py.             *)
(*                                                                         *)
(* Audio is counted in granules of a quarter second (SAMPLE_RATE \div 4    *)
(* samples), the coarsest unit that tells a buffer aligned to half a       *)
(* second from a misaligned one; a buffer is the sequence of the stream    *)
(* indices of its granules.  Word timestamps are in tenths of a second.    *)
(***************************************************************************)
EXTENDS Integers, Sequences, FiniteSets, TLC

VARIABLES
    audio_buffer,   \* the caller's SampleBuffer: stream indices of its granules
    transcript,     \* the caller's transcript dict: words, text, last_cutoff, not_confirmed
    stream_len,     \* granules the caller has handed over in calls that returned
    call,           \* the latest invocation: its inputs, what it emitted, how it ended
    win_starts,     \* first granule of the windows of the last two calls that returned one
    manager         \* the STTManager: its provider type and what __init__ found

vars == <<audio_buffer, transcript, stream_len, call, win_starts, manager>>

----------------------------------------------------------------------------
(* Bounds of the model *)

\* granules handed over in one session
MaxStream == 22
\* largest of the small chunks, in granules
MaxChunk == 2
\* the one large chunk, in granules: more than half a window
BigChunk == 11
\* longest transcript kept, in words
MaxWords == 3
\* longest word list the provider returns to merge_transcript on its own
MaxReply == 2
\* longest transcript kept within a session, in words
MaxStreamWords == 2
\* longest transcript kept when the two-window utterance is merged, in words
MaxScenarioWords == 4
\* granules handed over in a session in which every step may fail
MaxFaultStream == 6
\* granules the buffer may hold inside one call of an unending session
MaxBacklog == 21

----------------------------------------------------------------------------
(* Constants of STTManager.__init__ *)

SAMPLE_RATE == 48000
CHUNK_LENGTH == 5
STEP_LENGTH == 3

\* seconds as tenths of a second, the unit of the modelled timestamps
Secs(s) == 10 * s

MAX_RELIABILITY_CUTOFF == Secs(CHUNK_LENGTH - 1)

\* samples in one granule
Granule == SAMPLE_RATE \div 4

----------------------------------------------------------------------------
(* Python and numpy primitives the two methods use *)

Min(a, b) == IF a <= b THEN a ELSE b
Max(a, b) == IF a >= b THEN a ELSE b

\* len(audio_buffer), in samples
SampleLen(buf) == Len(buf) * Granule

\* seq[:n] of Python: n counts from the end when negative, and is clipped
PyPrefix(seq, n) ==
    LET stop == IF n < 0 THEN Max(Len(seq) + n, 0) ELSE Min(n, Len(seq))
    IN  SubSeq(seq, 1, stop)

\* seq[n:] of Python for n >= 0: empty when the sequence is shorter than n
PySuffix(seq, n) == SubSeq(seq, Min(n, Len(seq)) + 1, Len(seq))

\* audio_buffer[: nSamples] and audio_buffer[nSamples :], on granules
TakeSamples(buf, nSamples) == PyPrefix(buf, nSamples \div Granule)
DropSamples(buf, nSamples) == PySuffix(buf, nSamples \div Granule)

\* " ".join(words)
RECURSIVE Join(_)
Join(words) ==
    IF Len(words) = 0 THEN ""
    ELSE IF Len(words) = 1 THEN words[1]
    ELSE words[1] \o " " \o Join(Tail(words))

----------------------------------------------------------------------------
(* STTManager.merge_transcript *)

\* Variant: the provisional tail is not dropped
RetainedKeepsAll(t) == t.words

\* Variant: the truncation drops one word too many
RetainedOffByOne(t) == PyPrefix(t.words, Len(t.words) - t.not_confirmed - 1)

\* transcript["words"][: len(transcript["words"]) - transcript["not_confirmed"]]
Retained(t) == PyPrefix(t.words, Len(t.words) - t.not_confirmed)

\* Variant: a word starting exactly on the cutoff is skipped
AcceptsStrictlyAfter(w, cut_off) == w.start > cut_off

\* word_dict["start"] >= cut_off
Accepts(w, cut_off) == w.start >= cut_off

\* Variant: the duplicate check is left out
IsBoundaryDuplicateNever(st, w) == FALSE

\* first_word and len(words) > 0 and words[-1] == word_dict["word"]: the word is skipped
IsBoundaryDuplicate(st, w) ==
    /\ st.first_word
    /\ Len(st.words) > 0
    /\ st.words[Len(st.words)] = w.word

\* Variant: a word starting exactly on the reliability cutoff is provisional
IsProvisionalInclusive(w) == w.start >= MAX_RELIABILITY_CUTOFF

\* word_dict["start"] > self.MAX_RELIABILITY_CUTOFF
IsProvisional(w) == w.start > MAX_RELIABILITY_CUTOFF

\* Variant: the end is re-based by the window length instead of the step
NextCutoffByWindow(w) == Max(Secs(1), w.end - Secs(CHUNK_LENGTH))

\* Variant: the floor of one second is left out
NextCutoffNoFloor(w) == w.end - Secs(STEP_LENGTH)

\* max(1.0, word_dict["end"] - self.STEP_LENGTH)
NextCutoff(w) == Max(Secs(1), w.end - Secs(STEP_LENGTH))

\* word_dict["start"], word_dict["word"] and word_dict["end"] can be read;
\* reading a missing key raises KeyError
IsWordDict(w) == {"word", "start", "end"} \subseteq DOMAIN w

\* One pass of the loop body for W[i].  appended and skipped record, by
\* index in W, the words that were appended and those the duplicate rule
\* dropped; raised, that the pass ended in an exception.
MergeWord(st, w, i, cut_off) ==
    IF ~IsWordDict(w) THEN [st EXCEPT !.raised = TRUE]
    ELSE IF ~Accepts(w, cut_off) THEN st
    ELSE IF IsBoundaryDuplicate(st, w)
    THEN [st EXCEPT !.skipped = Append(@, i)]   \* continue: first_word stays True
    ELSE LET st1 == [st EXCEPT !.first_word = FALSE,
                               !.words = Append(@, w.word),
                               !.appended = Append(@, i)]
         IN  IF IsProvisional(w)
             THEN [st1 EXCEPT !.not_confirmed = @ + 1]
             ELSE [st1 EXCEPT !.last_cutoff = NextCutoff(w)]

\* for word_dict in new_transcript, from W[i] on
RECURSIVE MergeLoop(_, _, _, _)
MergeLoop(st, W, i, cut_off) ==
    IF i > Len(W) \/ st.raised THEN st
    ELSE MergeLoop(MergeWord(st, W[i], i, cut_off), W, i + 1, cut_off)

\* Variant: an empty word list returns before the dict is touched
MergeRunSkipsEmpty(t, W) ==
    LET st0 == [words |-> Retained(t),
                not_confirmed |-> 0,
                last_cutoff |-> MAX_RELIABILITY_CUTOFF - Secs(STEP_LENGTH),
                first_word |-> TRUE,
                appended |-> <<>>,
                skipped |-> <<>>,
                raised |-> FALSE]
    IN  IF W = <<>>
        THEN [st0 EXCEPT !.words = t.words,
                         !.not_confirmed = t.not_confirmed,
                         !.last_cutoff = t.last_cutoff]
        ELSE MergeLoop(st0, W, 1, t.last_cutoff)

\* The state of merge_transcript when its loop ends
MergeRun(t, W) ==
    LET cut_off == t.last_cutoff
        st0 == [words |-> Retained(t),
                not_confirmed |-> 0,
                last_cutoff |-> MAX_RELIABILITY_CUTOFF - Secs(STEP_LENGTH),
                first_word |-> TRUE,
                appended |-> <<>>,
                skipped |-> <<>>,
                raised |-> FALSE]
    IN  MergeLoop(st0, W, 1, cut_off)

\* Variant: the words are joined without a separator
RECURSIVE JoinedTextNoSeparator(_)
JoinedTextNoSeparator(words) ==
    IF Len(words) = 0 THEN "" ELSE words[1] \o JoinedTextNoSeparator(Tail(words))

\* transcript["text"] = " ".join(transcript["words"])
JoinedText(words) == Join(words)

\* The dict merge_transcript returns (the caller's dict, changed in place);
\* when the loop raises, the dict as the exception leaves it: line 114 has
\* not run and text is the old one
merge_transcript(t, W) ==
    LET st == MergeRun(t, W)
    IN  [words |-> st.words,
         text |-> IF st.raised THEN t.text ELSE JoinedText(st.words),
         last_cutoff |-> st.last_cutoff,
         not_confirmed |-> st.not_confirmed]

----------------------------------------------------------------------------
(* STTManager.numpy_audio_to_bytes and STTManager.process_audio_chunk *)

\* The WAV container wave.open writes around the frames
numpy_audio_to_bytes(audio_data) ==
    [nchannels |-> 1, sampwidth |-> 2, framerate |-> SAMPLE_RATE, frames |-> audio_data]

\* Variant: only a full window is ready, whatever the alignment
IsReadyFullWindowOnly(buf) == SampleLen(buf) >= SAMPLE_RATE * CHUNK_LENGTH

\* Variant: a window is ready after one step of audio instead of one window
IsReadyAfterStep(buf) ==
    \/ SampleLen(buf) >= SAMPLE_RATE * STEP_LENGTH
    \/ SampleLen(buf) % (SAMPLE_RATE \div 2) # 0

\* len(audio_buffer) >= SAMPLE_RATE * CHUNK_LENGTH or len(audio_buffer) % (SAMPLE_RATE // 2) != 0
IsReady(buf) ==
    \/ SampleLen(buf) >= SAMPLE_RATE * CHUNK_LENGTH
    \/ SampleLen(buf) % (SAMPLE_RATE \div 2) # 0

\* Variant: the whole buffer is sent, without the slice
WindowWholeBuffer(buf) == buf

\* audio_buffer[: self.SAMPLE_RATE * self.CHUNK_LENGTH]
Window(buf) == TakeSamples(buf, SAMPLE_RATE * CHUNK_LENGTH)

\* Variant: the buffer is handed back without the slide
SlideNothing(buf) == buf

\* Variant: the slice keeps the first step instead of dropping it
SlideKeepsHead(buf) == TakeSamples(buf, SAMPLE_RATE * STEP_LENGTH)

\* audio_buffer[self.SAMPLE_RATE * self.STEP_LENGTH :]
Slide(buf) == DropSamples(buf, SAMPLE_RATE * STEP_LENGTH)

\* Variant: the dict is truncated and reset before the provider is called
DictResetBeforeProvider(t) ==
    [t EXCEPT !.words = Retained(t),
              !.not_confirmed = 0,
              !.last_cutoff = MAX_RELIABILITY_CUTOFF - Secs(STEP_LENGTH)]

\* The transcript dict when speech_to_text_stream raises: merge_transcript,
\* the only code that writes to it, has not run
DictAtProviderError(t) == t

\* Variant: a provider error is swallowed and the call returns
OnProviderErrorSwallowed(sent, t, reply) == sent

\* speech_to_text_stream raises at line 61: nothing in process_audio_chunk
\* catches it, so the invocation ends with that exception
OnProviderError(sent, t, reply) ==
    [sent EXCEPT !.raised = TRUE,
                 !.error = reply.message,
                 !.dict = DictAtProviderError(t)]

\* One invocation, to its return or to the exception leaving it.  encoded
\* says whether numpy_audio_to_bytes returns or raises AudioConversionError;
\* reply is what speech_to_text_stream does with the window, if one is sent:
\* an exception (reply.error, reply.message) or the word list reply.words.
\* dict is the caller's transcript dict as the invocation leaves it; buffer
\* and text are returned only when raised is FALSE.  provider_calls counts
\* the calls of speech_to_text_stream, requests those that reach the provider.
process_audio_chunk(audio, buf, t, encoded, reply) ==
    LET appended == buf \o audio
        base == [appended |-> appended, emitted |-> FALSE, window |-> <<>>,
                 audio_bytes |-> <<>>, provider_calls |-> 0, requests |-> 0,
                 merged |-> FALSE, raised |-> FALSE, error |-> "",
                 dict |-> t, buffer |-> appended, text |-> t.text]
    IN  IF ~IsReady(appended) THEN base
        ELSE IF ~encoded
        THEN [base EXCEPT !.window = Window(appended),
                          !.raised = TRUE,
                          !.error = "Error converting numpy array to audio bytes"]
        ELSE LET window == Window(appended)
                 sent == [base EXCEPT !.emitted = TRUE,
                                      !.window = window,
                                      !.audio_bytes = numpy_audio_to_bytes(window),
                                      !.buffer = Slide(appended),
                                      !.provider_calls = 1,
                                      !.requests = reply.requests]
             IN  IF reply.error
                 THEN OnProviderError(sent, t, reply)
                 ELSE LET m == merge_transcript(t, reply.words)
                      IN  IF MergeRun(t, reply.words).raised
                          THEN [sent EXCEPT !.merged = TRUE, !.dict = m,
                                            !.raised = TRUE, !.error = "KeyError"]
                          ELSE [sent EXCEPT !.merged = TRUE, !.dict = m, !.text = m.text]

----------------------------------------------------------------------------
(* STTManager.speech_to_text_stream, test_streaming and __init__ *)

Unsupported == "STT Error: Streaming not supported for this STT type"

\* What the provider does with one request: it returns a word list, or the
\* client raises an APIError or some other exception
Returns(W) == [kind |-> "words", words |-> W]
RaisesAPIError == [kind |-> "APIError", message |-> "STT Error: upstream"]
RaisesOther == [kind |-> "Exception", message |-> "connection reset"]

\* Variant: the provider type is not looked at
IsStreamingUnsupportedNever(self) == FALSE

\* self.config.stt.type == "HF_API"
IsStreamingUnsupported(self) == self.stt_type = "HF_API"

\* The call at line 61: the word list returned, or the APIError raised
speech_to_text_stream(self, outcome) ==
    IF IsStreamingUnsupported(self)
    THEN [error |-> TRUE, message |-> Unsupported, words |-> <<>>, requests |-> 0]
    ELSE IF outcome.kind = "words"
    THEN [error |-> FALSE, message |-> "", words |-> outcome.words, requests |-> 1]
    ELSE IF outcome.kind = "APIError"
    THEN [error |-> TRUE, message |-> outcome.message, words |-> <<>>, requests |-> 1]
    ELSE [error |-> TRUE, message |-> "STT Error: Unexpected error: " \o outcome.message,
          words |-> <<>>, requests |-> 1]

\* try: speech_to_text_stream(...); return True; except: return False
test_streaming(self, outcome) == ~speech_to_text_stream(self, outcome).error

\* __init__ with a provider of type stt_type that is up or not: test_stt
\* and test_streaming catch every exception, so the manager is constructed
STTManager(stt_type, up) ==
    LET self == [stt_type |-> stt_type]
        outcome == IF up THEN Returns(<<>>) ELSE RaisesOther
    IN  [stt_type |-> stt_type,
         constructed |-> TRUE,
         status |-> up,
         streaming |-> test_streaming(self, outcome)]

----------------------------------------------------------------------------
(* What the provider may return *)

Texts == {"no", "yes"}

\* start and end of a word, in tenths of a second from the window's start:
\* exactly on the fallback cutoff (and below a raised one), exactly on the
\* reliability cutoff (and ending late enough to raise the next cutoff),
\* and past the reliability cutoff
Timings == {<<10, 14>>, <<40, 45>>, <<42, 46>>}

WordChoices == {[word |-> x, start |-> tm[1], end |-> tm[2]] : x \in Texts, tm \in Timings}

\* every word list of at most n words, in any order
WordLists(n) == UNION {[1..k -> WordChoices] : k \in 0..n}

\* the word lists returned within a session: empty, or one word that is
\* confirmed or provisional
StreamReplies ==
    {<<>>} \cup {<<w>> : w \in {c \in WordChoices : c.start \in {10, 42}}}

\* the chunk sizes of a session, in granules
ChunkSizes == (0..MaxChunk) \cup {BigChunk}

----------------------------------------------------------------------------
(* The session: a caller feeding chunks, holding the buffer and the dict *)

EmptyTranscript == [words |-> <<>>, text |-> "", last_cutoff |-> 0, not_confirmed |-> 0]

NoCall == [kind |-> "none"]

Init ==
    /\ audio_buffer = <<>>
    /\ transcript = EmptyTranscript
    /\ stream_len = 0
    /\ call = NoCall
    /\ win_starts = <<0, 0>>
    /\ manager = STTManager("OPENAI_API", TRUE)

\* The next n granules of the stream
Chunk(n) == [i \in 1..n |-> stream_len + i]

\* The caller invokes process_audio_chunk with n new granules.  The dict is
\* shared with the callee; the buffer and the stream advance only through
\* the returned values.
Invoke(n, encoded, reply) ==
    LET r == process_audio_chunk(Chunk(n), audio_buffer, transcript, encoded, reply)
    IN  /\ stream_len + n <= MaxStream
        /\ Len(r.dict.words) <= MaxStreamWords
        /\ transcript' = r.dict
        /\ audio_buffer' = IF r.raised THEN audio_buffer ELSE r.buffer
        /\ stream_len' = IF r.raised THEN stream_len ELSE stream_len + n
        /\ win_starts' = IF r.emitted /\ ~r.raised
                         THEN <<win_starts[2], r.window[1]>>
                         ELSE win_starts
        /\ call' = [kind |-> "process_audio_chunk",
                    chunk |-> Chunk(n),
                    buffer_in |-> audio_buffer,
                    transcript_in |-> transcript,
                    encoded |-> encoded,
                    reply |-> reply,
                    new_transcript |-> IF r.merged THEN reply.words ELSE <<>>,
                    result |-> r]
        /\ UNCHANGED manager

\* No window is ready after the append: the provider is not called
ChunkBuffered(n) ==
    /\ ~IsReady(audio_buffer \o Chunk(n))
    /\ Invoke(n, TRUE, speech_to_text_stream(manager, Returns(<<>>)))

\* A window is sent and the provider returns the word list W
ChunkTranscribed(n, W) ==
    /\ IsReady(audio_buffer \o Chunk(n))
    /\ ~speech_to_text_stream(manager, Returns(W)).error
    /\ Invoke(n, TRUE, speech_to_text_stream(manager, Returns(W)))

\* A window is sent and the provider call raises APIError
ChunkProviderError(n) ==
    /\ IsReady(audio_buffer \o Chunk(n))
    /\ Invoke(n, TRUE, speech_to_text_stream(manager, RaisesAPIError))

Next ==
    \E n \in ChunkSizes :
        \/ ChunkBuffered(n)
        \/ \E W \in StreamReplies : ChunkTranscribed(n, W)
        \/ ChunkProviderError(n)

Spec == Init /\ [][Next]_vars

----------------------------------------------------------------------------
(* The session with every failure of an invocation: the manager is of      *)
(* either provider type, the encoding, the provider call and the merge may *)
(* each raise                                                              *)

\* a word list whose last entry has no "start" key
MalformedReplies == {Append(W, [word |-> "no", end |-> 14]) : W \in StreamReplies}

\* A window is sent and the client raises an exception that is no APIError
ChunkProviderCrash(n) ==
    /\ IsReady(audio_buffer \o Chunk(n))
    /\ Invoke(n, TRUE, speech_to_text_stream(manager, RaisesOther))

\* numpy_audio_to_bytes raises AudioConversionError for the window
ChunkEncodingError(n) ==
    /\ IsReady(audio_buffer \o Chunk(n))
    /\ Invoke(n, FALSE, speech_to_text_stream(manager, Returns(<<>>)))

\* A window is sent, the provider returns W and merge_transcript raises
\* KeyError at its last entry
ChunkMergeError(n, W) ==
    /\ IsReady(audio_buffer \o Chunk(n))
    /\ ~speech_to_text_stream(manager, Returns(W)).error
    /\ Invoke(n, TRUE, speech_to_text_stream(manager, Returns(W)))

InitFaults ==
    /\ audio_buffer = <<>>
    /\ transcript = EmptyTranscript
    /\ stream_len = 0
    /\ call = NoCall
    /\ win_starts = <<0, 0>>
    /\ manager \in {STTManager(ty, up) : ty \in {"OPENAI_API", "HF_API"}, up \in BOOLEAN}

\* the chunk still fits the stream of such a session
Fits(n) == stream_len + n <= MaxFaultStream

NextFaults ==
    \E n \in ChunkSizes :
        \/ Fits(n) /\ ChunkBuffered(n)
        \/ \E W \in StreamReplies : Fits(n) /\ ChunkTranscribed(n, W)
        \/ Fits(n) /\ ChunkProviderError(n)
        \/ Fits(n) /\ ChunkProviderCrash(n)
        \/ Fits(n) /\ ChunkEncodingError(n)
        \/ \E W \in MalformedReplies : Fits(n) /\ ChunkMergeError(n, W)

SpecFaults == InitFaults /\ [][NextFaults]_vars

----------------------------------------------------------------------------
(* merge_transcript on its own: any sequence of merges from the empty state *)

\* One call of merge_transcript on the caller's dict, kept while the
\* transcript stays within cap words
MergeStep(W, cap) ==
    LET m == merge_transcript(transcript, W)
        st == MergeRun(transcript, W)
    IN  /\ Len(m.words) <= cap
        /\ transcript' = m
        /\ call' = [kind |-> "merge_transcript",
                    transcript_in |-> transcript,
                    new_transcript |-> W,
                    appended |-> st.appended,
                    skipped |-> st.skipped]
        /\ UNCHANGED <<audio_buffer, stream_len, win_starts, manager>>

MergeTranscript(W) == MergeStep(W, MaxWords)

NextMerge == \E W \in WordLists(MaxReply) : MergeTranscript(W)

SpecMerge == Init /\ [][NextMerge]_vars

----------------------------------------------------------------------------
(* merge_transcript on the words of two consecutive windows of one        *)
(* utterance: "the quick fox", then, three seconds on, "quick fox jumps"  *)

Word(x, start, end) == [word |-> x, start |-> start, end |-> end]

Window1Words == <<Word("the", 0, 4), Word("quick", 5, 10), Word("fox", 42, 46)>>
Window2Words == <<Word("quick", 2, 6), Word("fox", 12, 16), Word("jumps", 17, 21)>>

\* every run of consecutive words of either window
ScenarioReplies ==
    {SubSeq(W, i, j) : W \in {Window1Words, Window2Words}, i \in 1..3, j \in 0..3}

MergeScenario(W) == MergeStep(W, MaxScenarioWords)

NextScenario == \E W \in ScenarioReplies : MergeScenario(W)

SpecScenario == Init /\ [][NextScenario]_vars

----------------------------------------------------------------------------
(* An unending session: chunks keep arriving and every provider call
   succeeds.  Granules are numbered round a ring longer than any buffer, so
   that the stream never runs out; stream_len is the position on the ring. *)

Ring == MaxBacklog + 1

RingChunk(n) == [i \in 1..n |-> ((stream_len + i - 1) % Ring) + 1]

InvokeLive(n, W) ==
    LET reply == speech_to_text_stream(manager, Returns(W))
        r == process_audio_chunk(RingChunk(n), audio_buffer, transcript, TRUE, reply)
    IN  /\ Len(audio_buffer) + n <= MaxBacklog
        /\ Len(r.dict.words) <= MaxStreamWords
        /\ transcript' = r.dict
        /\ audio_buffer' = r.buffer
        /\ stream_len' = (stream_len + n) % Ring
        /\ call' = [kind |-> "process_audio_chunk",
                    chunk |-> RingChunk(n),
                    buffer_in |-> audio_buffer,
                    transcript_in |-> transcript,
                    encoded |-> TRUE,
                    reply |-> reply,
                    new_transcript |-> IF r.merged THEN reply.words ELSE <<>>,
                    result |-> r]
        /\ UNCHANGED <<win_starts, manager>>

\* The provider hears no word in any window: what it answers does not
\* touch the buffer
LiveReplies == {W \in StreamReplies : W = <<>>}

\* The chunk is appended and no window is ready
LiveBuffered(n) ==
    /\ ~IsReady(audio_buffer \o RingChunk(n))
    /\ InvokeLive(n, <<>>)

\* A window is sent and the provider returns the word list W
LiveTranscribed(n, W) ==
    /\ IsReady(audio_buffer \o RingChunk(n))
    /\ InvokeLive(n, W)

\* A chunk that holds audio arrives
ChunkArrives ==
    \E n \in ChunkSizes \ {0} :
        \/ LiveBuffered(n)
        \/ \E W \in LiveReplies : LiveTranscribed(n, W)

\* A call with an empty chunk
EmptyChunk ==
    \/ LiveBuffered(0)
    \/ \E W \in LiveReplies : LiveTranscribed(0, W)

NextLive == ChunkArrives \/ EmptyChunk

SpecLive == Init /\ [][NextLive]_vars /\ WF_vars(ChunkArrives)

----------------------------------------------------------------------------
(* Properties *)

IsChunkCall == call.kind = "process_audio_chunk"
IsMerge == call.kind = "merge_transcript"

\* the buffer of the latest invocation after the append, from its inputs
AppendedIn == call.buffer_in \o call.chunk

\* C1: when the provider call fails during process_audio_chunk, the buffer
\* and the transcript the caller holds are what they were before the call
\* and the chunk is still the next one of the stream, so the same chunk on
\* the same state gives the result it would have given had the failure
\* never happened (process_audio_chunk is a function of its arguments and
\* of the provider's reply).
C1_ProviderFailureLeavesState ==
    (IsChunkCall /\ call.result.raised) =>
        /\ audio_buffer = call.buffer_in
        /\ transcript = call.transcript_in
        /\ Chunk(Len(call.chunk)) = call.chunk

\* C1 witness: a provider failure met a non-empty buffer, a non-empty chunk
\* and a transcript holding a provisional word.
C1_Witness ==
    /\ IsChunkCall
    /\ call.result.raised
    /\ Len(call.buffer_in) > 0
    /\ Len(call.chunk) > 0
    /\ call.transcript_in.not_confirmed > 0
    /\ call.transcript_in.last_cutoff > 0

\* C2: after any window emission the returned buffer is exactly 144000
\* samples shorter than the buffer was after the append, also when that
\* buffer was misaligned and shorter than 144000 samples.
C2_BufferShrinksByStep ==
    (IsChunkCall /\ call.result.emitted /\ ~call.result.raised) =>
        SampleLen(audio_buffer) = SampleLen(AppendedIn) - 144000

\* C3: a word once confirmed is never removed by a later merge: the words
\* below len(words) - not_confirmed stay where they are, with their text,
\* and stay confirmed, in every merge that follows.
ConfirmedPrefix(t) == SubSeq(t.words, 1, Len(t.words) - t.not_confirmed)

IsPrefixOf(a, b) == Len(a) <= Len(b) /\ SubSeq(b, 1, Len(a)) = a

C3_ConfirmedWordsStay ==
    [][IsPrefixOf(ConfirmedPrefix(transcript), ConfirmedPrefix(transcript'))]_vars

\* C3 witness: a merge of an empty word list dropped a provisional word and
\* left the confirmed words before it.
C3_Witness ==
    /\ IsMerge
    /\ call.new_transcript = <<>>
    /\ call.transcript_in.not_confirmed > 0
    /\ Len(call.transcript_in.words) > call.transcript_in.not_confirmed
    /\ transcript.words = ConfirmedPrefix(call.transcript_in)

\* C4: the duplicate-boundary rule skips once: in one merge at most one
\* word is dropped because its text equals the last retained word.
C4_DuplicateSkippedOnce ==
    IsMerge => Len(call.skipped) <= 1

\* C5: when the first word of the new list with start >= cutoff has the
\* text of the last retained word, it is not appended and the retained
\* words, that occurrence included, are kept.
RetainedIn == SubSeq(call.transcript_in.words, 1,
                     Len(call.transcript_in.words) - call.transcript_in.not_confirmed)

AcceptedIn == {i \in 1..Len(call.new_transcript) :
                  call.new_transcript[i].start >= call.transcript_in.last_cutoff}

FirstAcceptedIn == CHOOSE i \in AcceptedIn : \A j \in AcceptedIn : i <= j

InSeq(x, seq) == \E k \in 1..Len(seq) : seq[k] = x

BoundaryRepeats ==
    /\ IsMerge
    /\ Len(RetainedIn) > 0
    /\ AcceptedIn # {}
    /\ call.new_transcript[FirstAcceptedIn].word = RetainedIn[Len(RetainedIn)]

C5_BoundaryWordOnce ==
    BoundaryRepeats =>
        /\ ~InSeq(FirstAcceptedIn, call.appended)
        /\ IsPrefixOf(RetainedIn, transcript.words)
        /\ Len(transcript.words) = Len(RetainedIn) + Len(call.appended)

\* C5 witness: the boundary word repeated, and the word after it was appended.
C5_Witness ==
    /\ BoundaryRepeats
    /\ call.transcript_in.not_confirmed > 0
    /\ Len(call.appended) > 0

\* C6: each emitted window starts exactly step_seconds after the one
\* before: the first sample of the second of two consecutive windows is
\* 144000 samples after the first sample of the first.
C6_WindowsOneStepApart ==
    (win_starts[1] > 0 /\ win_starts[2] > 0) =>
        (win_starts[2] - win_starts[1]) * Granule = 144000

\* C7: while the buffer after the append stays below 240000 samples and is
\* a multiple of 24000 samples, no window is emitted, the provider is not
\* called, the transcript is unchanged and the returned buffer is the old
\* buffer followed by the chunk.
QuietAppend ==
    /\ IsChunkCall
    /\ Len(AppendedIn) * Granule < 240000
    /\ (Len(AppendedIn) * Granule) % 24000 = 0

C7_AlignedShortBufferOnlyGrows ==
    QuietAppend =>
        /\ ~call.result.emitted
        /\ ~call.result.raised
        /\ call.result.provider_calls = 0
        /\ transcript = call.transcript_in
        /\ audio_buffer = AppendedIn

\* C7 witness: a non-empty chunk was appended to a non-empty buffer without
\* a window, in a session that already has a transcript.
C7_Witness ==
    /\ QuietAppend
    /\ Len(call.chunk) > 0
    /\ Len(call.buffer_in) > 0
    /\ Len(transcript.words) > 0

\* C8: every emitted window is the first min(len(buffer), 240000) samples
\* of the buffer after the append, so it never exceeds 240000 samples.
C8_WindowIsBoundedPrefix ==
    (IsChunkCall /\ call.result.emitted) =>
        /\ call.result.window =
              SubSeq(AppendedIn, 1, Min(Len(AppendedIn), 240000 \div Granule))
        /\ Len(call.result.window) * Granule <= 240000
        /\ call.result.audio_bytes.frames = call.result.window

\* C8 witness: a window was cut from a buffer holding more than one window.
C8_Witness ==
    /\ IsChunkCall
    /\ call.result.emitted
    /\ Len(AppendedIn) * Granule > 240000

\* C9: in every state process_audio_chunk returns, text is the words joined
\* by single spaces, and the returned display text is the returned
\* transcript's text.
RECURSIVE SpaceSeparated(_)
SpaceSeparated(words) ==
    IF Len(words) = 0 THEN ""
    ELSE IF Len(words) = 1 THEN words[1]
    ELSE SpaceSeparated(SubSeq(words, 1, Len(words) - 1)) \o " " \o words[Len(words)]

C9_TextIsJoinedWords ==
    /\ transcript.text = SpaceSeparated(transcript.words)
    /\ (IsChunkCall /\ ~call.result.raised) => call.result.text = transcript.text

\* C9 witness: a merge inside process_audio_chunk returned several words.
C9_Witness ==
    /\ IsChunkCall
    /\ call.result.merged
    /\ Len(transcript.words) >= 2
    /\ transcript.text # call.transcript_in.text

\* C10: 0 <= not_confirmed <= len(words), and not_confirmed is the number
\* of words the latest merge appended whose start is greater than 4.0.
AppendedLate ==
    {k \in 1..Len(call.appended) : call.new_transcript[call.appended[k]].start > 40}

C10_NotConfirmedCountsLateWords ==
    /\ transcript.not_confirmed >= 0
    /\ transcript.not_confirmed <= Len(transcript.words)
    /\ IsMerge => transcript.not_confirmed = Cardinality(AppendedLate)

\* C10 witness: a merge appended a word starting exactly at 4.0 and a word
\* starting after it.
C10_Witness ==
    /\ IsMerge
    /\ transcript.not_confirmed = 1
    /\ Len(call.appended) = 2
    /\ \E k \in 1..2 : call.new_transcript[call.appended[k]].start = 40

\* C11: the words counted in not_confirmed at round N are not in the
\* retained prefix of round N+1: the merge keeps exactly the words before
\* the trailing not_confirmed ones, counts no old word as provisional, and
\* every word after the kept ones is a word of the new list.
NewWordAt(k) == call.new_transcript[call.appended[k]]

C11_ProvisionalTailDropped ==
    IsMerge =>
        LET keep == Len(call.transcript_in.words) - call.transcript_in.not_confirmed
        IN  /\ Len(transcript.words) = keep + Len(call.appended)
            /\ SubSeq(transcript.words, 1, keep) = SubSeq(call.transcript_in.words, 1, keep)
            /\ \A k \in 1..Len(call.appended) :
                  transcript.words[keep + k] = NewWordAt(k).word
            /\ transcript.not_confirmed <= Len(call.appended)
            /\ (call.new_transcript = <<>>) => transcript.not_confirmed = 0

\* C11 witness: a provisional word of the round before was dropped and the
\* new list supplied a different word in its place.
C11_Witness ==
    /\ IsMerge
    /\ call.transcript_in.not_confirmed = 1
    /\ Len(call.appended) = 1
    /\ Len(transcript.words) = Len(call.transcript_in.words)
    /\ transcript.words # call.transcript_in.words

\* C12: from the empty state, merging window 1 [the(0.0,0.4),
\* quick(0.5,1.0), fox(4.2,4.6)] gives words [the, quick, fox],
\* not_confirmed 1, last_cutoff 1.0, text "the quick fox"; merging window 2
\* [quick(0.2,0.6), fox(1.2,1.6), jumps(1.7,2.1)] into that gives words
\* [the, quick, fox, jumps], not_confirmed 0, text "the quick fox jumps".
AfterWindow1 ==
    [words |-> <<"the", "quick", "fox">>, text |-> "the quick fox",
     last_cutoff |-> 10, not_confirmed |-> 1]

C12_TwoWindowScenario ==
    /\ (/\ IsMerge
        /\ call.transcript_in = EmptyTranscript
        /\ call.new_transcript = Window1Words) => transcript = AfterWindow1
    /\ (/\ IsMerge
        /\ call.transcript_in = AfterWindow1
        /\ call.new_transcript = Window2Words) =>
            /\ transcript.words = <<"the", "quick", "fox", "jumps">>
            /\ transcript.not_confirmed = 0
            /\ transcript.text = "the quick fox jumps"

\* C12 witness: window 2 was merged into the result of window 1.
C12_Witness ==
    /\ IsMerge
    /\ call.transcript_in = AfterWindow1
    /\ call.new_transcript = Window2Words
    /\ Len(transcript.words) = 4

\* C13: a window is emitted exactly when the buffer after the append holds
\* at least 240000 samples or is not a multiple of 24000 samples, and an
\* emission makes one provider call; so a misaligned buffer emits however
\* short it is, and an empty chunk on an aligned buffer below 240000 does
\* not.
ReadyIn ==
    \/ Len(AppendedIn) * Granule >= 240000
    \/ (Len(AppendedIn) * Granule) % 24000 # 0

C13_EmittedExactlyWhenReady ==
    IsChunkCall =>
        /\ call.result.emitted <=> ReadyIn
        /\ call.result.provider_calls = (IF ReadyIn THEN 1 ELSE 0)
        /\ (Len(AppendedIn) = 1) => call.result.emitted
        /\ (call.chunk = <<>> /\ ~ReadyIn) => ~call.result.emitted

\* C13 witness: a quarter of a second of audio, alone in the buffer, was
\* emitted as a window.
C13_Witness ==
    /\ IsChunkCall
    /\ Len(AppendedIn) = 1
    /\ call.result.emitted
    /\ call.result.provider_calls = 1
    /\ Len(call.result.window) = 1

\* C14: no partial state mutation is observable: when a step of
\* process_audio_chunk fails (the encoding, the provider call, or the merge
\* part-way through the word list), the transcript dict the caller holds
\* shows none of that call's changes.
C14_FailedCallLeavesDict ==
    (IsChunkCall /\ call.result.raised) => transcript = call.transcript_in

\* C15: an invocation makes at most one provider call, none when no window
\* is ready, and when that call raises, its error reaches the caller as it
\* is, without a second call and without merge_transcript being run.
C15_ProviderErrorSurfacesOnce ==
    IsChunkCall =>
        /\ call.result.provider_calls <= 1
        /\ call.result.requests <= 1
        /\ ~ReadyIn => (call.result.provider_calls = 0 /\ call.result.requests = 0)
        /\ (ReadyIn /\ call.encoded /\ call.reply.error) =>
              /\ call.result.raised
              /\ call.result.error = call.reply.message
              /\ call.result.provider_calls = 1
              /\ ~call.result.merged
              /\ transcript = call.transcript_in

\* C15 witness: an exception of the client, wrapped by
\* speech_to_text_stream, left process_audio_chunk.
C15_Witness ==
    /\ IsChunkCall
    /\ call.result.raised
    /\ call.result.provider_calls = 1
    /\ call.result.requests = 1
    /\ call.result.error = "STT Error: Unexpected error: connection reset"

ConfirmedAppended == {k \in 1..Len(call.appended) : NewWordAt(k).start <= 40}

LastConfirmedAppended ==
    CHOOSE k \in ConfirmedAppended : \A j \in ConfirmedAppended : j <= k

C17_CutoffFromLastConfirmed ==
    IsMerge =>
        /\ transcript.last_cutoff >= 10
        /\ transcript.last_cutoff =
              IF ConfirmedAppended = {} THEN 10
              ELSE LET e == NewWordAt(LastConfirmedAppended).end
                   IN  IF e - 30 > 10 THEN e - 30 ELSE 10

\* C17 witness: a word ending at 4.5 was appended as confirmed, then a
\* provisional one, and the cutoff is 1.5.
C17_Witness ==
    /\ IsMerge
    /\ Len(call.appended) = 2
    /\ NewWordAt(1).end = 45
    /\ NewWordAt(2).start > 40
    /\ transcript.last_cutoff = 15

\* C18: merging an empty word list still truncates: the result is the old
\* words without their trailing not_confirmed entries, not_confirmed 0,
\* last_cutoff 1.0 and the text joined again, so the transcript can become
\* shorter.
C18_EmptyListTruncates ==
    (IsMerge /\ call.new_transcript = <<>>) =>
        /\ transcript.words = RetainedIn
        /\ transcript.not_confirmed = 0
        /\ transcript.last_cutoff = 10
        /\ transcript.text = SpaceSeparated(RetainedIn)

\* C18 witness: an empty list made the transcript, and its text, shorter.
C18_Witness ==
    /\ IsMerge
    /\ call.new_transcript = <<>>
    /\ Len(transcript.words) < Len(call.transcript_in.words)
    /\ transcript.text # call.transcript_in.text
    /\ call.transcript_in.last_cutoff > 10

\* C19: words is append/truncate-only: the result of a merge is the
\* retained prefix of the old words followed by the texts of a subsequence
\* of the new list, in its order; every appended word has start >= the old
\* last_cutoff, and every word with start >= that cutoff (one starting
\* exactly on it included) is appended unless the duplicate rule drops it;
\* an appended word is provisional only when its start is above 4.0.
C19_AppendTruncateOnly ==
    IsMerge =>
        LET W == call.new_transcript
            cut == call.transcript_in.last_cutoff
            app == call.appended
        IN  /\ \A k \in 1..Len(app) : app[k] \in 1..Len(W) /\ W[app[k]].start >= cut
            /\ \A k \in 1..(Len(app) - 1) : app[k] < app[k + 1]
            /\ transcript.words = RetainedIn \o [k \in 1..Len(app) |-> W[app[k]].word]
            /\ \A i \in 1..Len(W) :
                  W[i].start >= cut => (InSeq(i, app) \/ InSeq(i, call.skipped))
            /\ \A i \in 1..Len(W) : W[i].start < cut => ~InSeq(i, app)
            /\ transcript.not_confirmed =
                  Cardinality({k \in 1..Len(app) : W[app[k]].start > 40})

\* C19 witness: after a retained word, a word starting exactly on the
\* cutoff and one starting exactly at 4.0 were appended, both confirmed.
C19_Witness ==
    /\ IsMerge
    /\ Len(RetainedIn) > 0
    /\ Len(RetainedIn) < Len(call.transcript_in.words)
    /\ Len(call.new_transcript) = 2
    /\ call.new_transcript[1].start = call.transcript_in.last_cutoff
    /\ call.new_transcript[2].start = 40
    /\ call.appended = <<1, 2>>
    /\ transcript.not_confirmed = 0

\* C20: no audio is discarded unseen: the buffer is always a contiguous
\* suffix of the stream appended so far, and every sample a call removes
\* from the front of the buffer was in the window emitted by that call; a
\* call that emits nothing, or that raises, removes nothing.
RemovedIn == Len(AppendedIn) - Len(audio_buffer)

C20_NoAudioDiscardedUnseen ==
    /\ Len(audio_buffer) <= stream_len
    /\ audio_buffer =
          [i \in 1..Len(audio_buffer) |-> stream_len - Len(audio_buffer) + i]
    /\ (IsChunkCall /\ call.result.raised) => audio_buffer = call.buffer_in
    /\ (IsChunkCall /\ ~call.result.raised) =>
          /\ RemovedIn >= 0
          /\ audio_buffer = SubSeq(AppendedIn, RemovedIn + 1, Len(AppendedIn))
          /\ RemovedIn > 0 => call.result.emitted
          /\ RemovedIn <= Len(call.result.window)
          /\ SubSeq(AppendedIn, 1, RemovedIn) = SubSeq(call.result.window, 1, RemovedIn)

\* C20 witness: a call emitted a window, removed its first step and left a
\* non-empty remainder that the window had only partly covered.
C20_Witness ==
    /\ IsChunkCall
    /\ call.result.emitted
    /\ ~call.result.raised
    /\ RemovedIn = 144000 \div Granule
    /\ Len(audio_buffer) > Len(call.result.window) - RemovedIn

\* C21: a word skipped by the cutoff rule lies in audio the previous
\* emitted window covered: when two calls in a row each emit a window, the
\* stream interval from the start of the second window to that start plus
\* the last_cutoff used by its merge lies inside the first window.
EmittedOk(c) ==
    /\ c.kind = "process_audio_chunk"
    /\ c.result.emitted
    /\ ~c.result.raised

C21_CutoffWithinPreviousWindow ==
    [][(EmittedOk(call) /\ EmittedOk(call')) =>
          LET prev == call.result.window
              cur == call'.result.window
              cut == call'.transcript_in.last_cutoff
          IN  /\ (cur[1] - 1) * Granule >= (prev[1] - 1) * Granule
              /\ (cur[1] - 1) * Granule + cut * (SAMPLE_RATE \div 10)
                    <= prev[Len(prev)] * Granule]_vars

\* C22: a call emits at most one window and removes at most 144000
\* samples, so a buffer holding more than one window is not drained by one
\* call; yet while chunks with audio keep arriving and every provider call
\* succeeds, every sample appended is eventually part of an emitted window.
OneWindowPerCall ==
    IsChunkCall =>
        /\ call.result.provider_calls <= 1
        /\ RemovedIn >= 0
        /\ RemovedIn * Granule <= 144000
        /\ Len(AppendedIn) * Granule > 240000 =>
              /\ audio_buffer # <<>>
              /\ audio_buffer[Len(audio_buffer)] = AppendedIn[Len(AppendedIn)]
              /\ ~InSeq(AppendedIn[Len(AppendedIn)], call.result.window)

Streamed(g) == IsChunkCall /\ InSeq(g, AppendedIn)

Covered(g) == IsChunkCall /\ call.result.emitted /\ InSeq(g, call.result.window)

C22_BacklogEventuallyEmitted ==
    /\ []OneWindowPerCall
    /\ \A g \in 1..Ring : Streamed(g) ~> Covered(g)

\* C22 witness: a call that held more than one window emitted the first
\* five seconds and kept a sample the window had not reached.
C22_Witness ==
    /\ IsChunkCall
    /\ call.result.emitted
    /\ Len(AppendedIn) * Granule > 240000
    /\ Len(call.result.window) * Granule = 240000
    /\ ~InSeq(audio_buffer[Len(audio_buffer)], call.result.window)

====
